---- MODULE Spec2Model ----
(***************************************************************************)
(* Model of the candidate-screening orchestration engine:                  *)
(*   - AgentOrchestrator.processCandidatesConcurrently / executeTask       *)
(*     (the multi-evaluator run, 3 evaluator tasks per candidate), and     *)
(*   - BulkResumeProcessor.processAllResumes / processSingleResume         *)
(*     (the windowed bulk run) with the screenResume client it calls.      *)
(*                                                                         *)
(* JavaScript runs one turn at a time.  A step of the model is one turn,   *)
(* or the part of a turn up to a point where registered listeners are      *)
(* called and can observe the state (emit).                                *)
(***************************************************************************)
EXTENDS Integers, Sequences, FiniteSets, TLC

\* ---------------------------------------------------------------- bounds
MaxCandidates == 2
MaxResumes == 3
MaxConcurrency == 2
MaxTokens == 5
MaxSuccessful == 21
MaxFailed == 2

\* ------------------------------------------------------- program constants
StrongHireThreshold == 85
HireThreshold == 70
ConsiderThreshold == 50
MaxRetries == 3
BaseDelayMs == 1000
MinSectionLength == 100
MinResumeLength == 50
MinFallbackLength == 200

\* a field that is absent (undefined) in a JavaScript object
Undefined == -1
NoResult == [match_score |-> Undefined, technical_score |-> Undefined,
             culture_score |-> Undefined]

\* the three evaluator tasks created per candidate, in creation order
AgentTypes == <<"TalentScout", "SkillsAnalyst", "CultureFit">>

\* agentType.toLowerCase(), the key used to look the agent up
ToLowerCase(agentType) ==
  CASE agentType = "TalentScout" -> "talentscout"
    [] agentType = "SkillsAnalyst" -> "skillsanalyst"
    [] agentType = "CultureFit" -> "culturefit"
    [] agentType = "Onboarder" -> "onboarder"
    [] agentType = "ComplianceChecker" -> "compliancechecker"

AgentIds == {"talentscout", "skillsanalyst", "culturefit", "onboarder", "compliance"}

\* scores the evaluators are driven with: samples of the 0..100 score field,
\* chosen so that every recommendation band and a .5 mean occur
EvaluatorScores(agentType) ==
  CASE agentType = "TalentScout" -> {45, 90}
    [] agentType = "SkillsAnalyst" -> {80}
    [] agentType = "CultureFit" -> {80}

\* the object an evaluator returns: only its own score field is present
EvaluatorResult(agentType, score) ==
  CASE agentType = "TalentScout" -> [NoResult EXCEPT !.match_score = score]
    [] agentType = "SkillsAnalyst" -> [NoResult EXCEPT !.technical_score = score]
    [] agentType = "CultureFit" -> [NoResult EXCEPT !.culture_score = score]

VARIABLES
  run,            \* which entry point this behaviour exercises: "multi" | "bulk"
  candidates,     \* candidates.length of processCandidatesConcurrently
  concurrency,    \* the concurrency ceiling the run is configured with (the
                  \* concurrency parameter of processAllResumes; the multi-evaluator
                  \* run takes no such parameter and never reads it)
  eventListeners, \* the event names that have a registered listener that throws
  pc,             \* position of the run
  allTasks,       \* AgentTask[] of the run
  taskPromises,   \* state of executeTask(task) for each task
  emitting,       \* index of the task whose task_completed listeners are running, 0 if none
  agents,         \* Map<string, AgentStatus>
  finalResults,   \* ConcurrentProcessingResult[] returned by the run
  emitted,        \* how many times emit was called, per event name
  eventLog,       \* what the listeners were handed: the data of the batch events
                  \* and, per task, the names of the events emitted with the task
  progress,       \* ProcessingProgress of MultiAgentProcessor, written by its listeners
  calls,          \* per task: how many times executeTask ran and how many times
                  \* it invoked the evaluator
  resumes,        \* resumes.length of processAllResumes
  i,              \* loop variable of processAllResumes: first index of the window
  batchPromises,  \* state of processSingleResume(resume, index), per index 0..resumes-1
  retryCount,     \* retryCount of the screenResume call in flight, per index
  attempts,       \* how many times the screening service was invoked, per index
  waits,          \* the backoff delays (ms) screenResume has waited or is waiting, per index
  waiting,        \* whether screenResume is in its backoff delay, per index
  dispatched,     \* how many times processSingleResume was called, per index
  cursor,         \* how many batchResults of the window the counting loop has consumed
  counters,       \* processed, successful, failed of processAllResumes
  results,        \* results: BulkResumeResult[] of processAllResumes
  bulkProgress,   \* the progress state the onProgress callback writes
  summary,        \* BulkProcessingSummary returned by processAllResumes
  pacingDelays,   \* how many pacing delays processAllResumes has waited
  resumesText,    \* the text handed to the segmenters, as a sequence of tokens
  parsed,         \* which segmenters have been applied to resumesText
  workUnits,      \* what parseMultipleResumesFromText returned
  resumeList      \* what parseResumesFromText returned

multiVars == <<allTasks, taskPromises, emitting, agents, finalResults, emitted, eventLog,
              progress, calls>>
retryVars == <<retryCount, attempts, waits, waiting>>
bulkVars == <<i, batchPromises, retryVars, dispatched, cursor, counters, results,
              bulkProgress, summary, pacingDelays>>
segVars == <<resumesText, parsed, workUnits, resumeList>>
params == <<run, candidates, resumes, concurrency, eventListeners, segVars>>

vars == <<run, candidates, resumes, concurrency, eventListeners, pc, allTasks, taskPromises, emitting,
          agents, finalResults, emitted, eventLog, progress, calls, i, batchPromises,
          retryCount, attempts, waits, waiting, dispatched, cursor, counters, results,
          bulkProgress, summary, pacingDelays, resumesText, parsed, workUnits, resumeList>>

\* ------------------------------------------------------------ data helpers
RECURSIVE SumSeq(_)
SumSeq(s) == IF s = <<>> THEN 0 ELSE Head(s) + SumSeq(Tail(s))

\* Math.floor in its place
MathFloor(num, den) == num \div den

\* Math.round(num / den) for num >= 0, den > 0: nearest integer, halves up
MathRound(num, den) == (2 * num + den) \div (2 * den)

\* a || b on numbers/undefined: a when a is truthy (present and not 0)
Truthy(x) == x # Undefined /\ x # 0

\* r.result?.match_score || r.result?.technical_score || r.result?.culture_score || 0
ScoreOf(result) ==
  IF Truthy(result.match_score) THEN result.match_score
  ELSE IF Truthy(result.technical_score) THEN result.technical_score
  ELSE IF Truthy(result.culture_score) THEN result.culture_score
  ELSE 0

\* candidateId `candidate_${timestamp}_${index}`: one timestamp per run, so the
\* index identifies the candidate
CandidateId(index) == index

\* a candidateId built from the timestamp alone, without the index
TasksOfTimestampOnly(index) ==
  [a \in 1..Len(AgentTypes) |->
     [id |-> <<CandidateId(0), AgentTypes[a]>>,
      agentType |-> AgentTypes[a],
      candidateId |-> CandidateId(0),
      status |-> "pending",
      result |-> NoResult,
      resultSet |-> FALSE,
      errorSet |-> FALSE]]

\* the tasks created for candidate `index` (0-based), all pending
TasksOf(index) ==
  [a \in 1..Len(AgentTypes) |->
     [id |-> <<CandidateId(index), AgentTypes[a]>>,
      agentType |-> AgentTypes[a],
      candidateId |-> CandidateId(index),
      status |-> "pending",
      result |-> NoResult,
      resultSet |-> FALSE,
      errorSet |-> FALSE]]

RECURSIVE CreateTasks(_, _)
CreateTasks(index, n) ==
  IF index >= n THEN <<>> ELSE TasksOf(index) \o CreateTasks(index + 1, n)

\* the lifecycle events of a run
EventNames ==
  {"batch_started", "task_started", "task_completed", "task_failed", "batch_completed"}

\* no event emitted yet
NothingEmitted == [event \in EventNames |-> 0]

\* this.emit(event, data), as far as the count of calls goes
Emit(counts, event) == [counts EXCEPT ![event] = @ + 1]

\* nothing handed to a listener yet
EmptyLog == [count |-> <<>>, tasks |-> <<>>, results |-> <<>>]

\* emit('batch_started', { count: candidates.length }); the tasks of the run
\* are created right after it
LogBatchStarted(log, count, tasks) ==
  [log EXCEPT !.count = Append(@, count), !.tasks = [k \in 1..tasks |-> <<>>]]

\* emit(event, { task, ... }) for task k
LogTask(log, k, event) == [log EXCEPT !.tasks[k] = Append(@, event)]

\* emit('batch_completed', { results: finalResults })
LogBatchCompleted(log, rs) == [log EXCEPT !.results = Append(@, rs)]

\* useState<ProcessingProgress>({ totalCandidates: 0, processedCandidates: 0, ... })
InitialProcessingProgress == [totalCandidates |-> 0, processedCandidates |-> 0]

\* the batch_started listener of MultiAgentProcessor
OnBatchStarted(prev, count) == [prev EXCEPT !.totalCandidates = count]

\* the task_completed listener of MultiAgentProcessor
OnTaskCompleted(prev) == [prev EXCEPT !.processedCandidates = @ + 1]

\* no task has been handed to executeTask
NoCalls(tasks) == [k \in 1..tasks |-> [executeTask |-> 0, evaluator |-> 0]]

InitialAgents ==
  [id \in AgentIds |->
     [status |-> "idle", tasksCompleted |-> 0, errorCount |-> 0, currentTask |-> Undefined]]


\* ------------------------------------------------------------- promises
Unstarted == [state |-> "unstarted", value |-> NoResult]
Pending == [state |-> "pending", value |-> NoResult]
Rejected == [state |-> "rejected", value |-> NoResult]
Fulfilled(v) == [state |-> "fulfilled", value |-> v]

Settled(p) == p.state \in {"fulfilled", "rejected"}

\* Promise.all in its place: rejects as soon as one promise is rejected
PromiseAll(promises) ==
  IF \E k \in DOMAIN promises : promises[k].state = "rejected" THEN "rejected"
  ELSE IF \A k \in DOMAIN promises : Settled(promises[k]) THEN "fulfilled"
  ELSE "pending"

\* Promise.race in its place: resumes as soon as one promise has settled
PromiseRace(promises) ==
  IF \E k \in DOMAIN promises : Settled(promises[k]) THEN "fulfilled" ELSE "pending"

\* await Promise.allSettled(promises): resumes once every promise has settled and
\* never rejects; "pending" while some promise is outstanding
PromiseAllSettled(promises) ==
  IF \A k \in DOMAIN promises : Settled(promises[k]) THEN "fulfilled" ELSE "pending"

\* --------------------------------------------------- AgentOrchestrator
\* emit(event, data) calls every listener registered for the event, in the
\* caller's stack: it throws when one of them does
EmitThrows(listeners, event) == event \in listeners

\* executeTask, before the evaluator is awaited: the updates to the agent
AgentBusy(ag, agentId, candidateId) ==
  IF agentId \in DOMAIN ag
  THEN [ag EXCEPT ![agentId].status = "busy", ![agentId].currentTask = candidateId]
  ELSE ag

\* executeTask after the evaluator returned: the agent metrics
AgentCompleted(ag, agentId) ==
  IF agentId \in DOMAIN ag
  THEN [ag EXCEPT ![agentId].status = "idle",
                  ![agentId].tasksCompleted = @ + 1,
                  ![agentId].currentTask = Undefined]
  ELSE ag

\* executeTask's catch block: the agent metrics
AgentFailed(ag, agentId) ==
  IF agentId \in DOMAIN ag
  THEN [ag EXCEPT ![agentId].status = "error",
                  ![agentId].errorCount = @ + 1,
                  ![agentId].currentTask = Undefined]
  ELSE ag

\* executeTask's catch block: the task
TaskFailed(task) == [task EXCEPT !.status = "failed", !.errorSet = TRUE]

\* executeTask after the evaluator returned: the task
TaskCompleted(task, result) ==
  [task EXCEPT !.status = "completed", !.result = result, !.resultSet = TRUE]

\* candidateResults.get(candidateId): one entry per fulfilled task of the
\* candidate, in task order
RECURSIVE AgentResultsFrom(_, _, _, _)
AgentResultsFrom(tasks, promises, candidateId, k) ==
  IF k > Len(tasks) THEN <<>>
  ELSE (IF tasks[k].candidateId = candidateId /\ promises[k].state = "fulfilled"
        THEN <<[agentType |-> tasks[k].agentType, result |-> promises[k].value]>>
        ELSE <<>>)
       \o AgentResultsFrom(tasks, promises, candidateId, k + 1)

AgentResults(tasks, promises, candidateId) ==
  AgentResultsFrom(tasks, promises, candidateId, 1)

ScoresOf(agentResults) ==
  [j \in 1..Len(agentResults) |-> ScoreOf(agentResults[j].result)]

\* the sum of the scores, not divided by their number
OverallScoreSum(scores) == SumSeq(scores)

\* an average updated score by score
RECURSIVE FoldAverage(_, _)
FoldAverage(avg, rest) ==
  IF rest = <<>> THEN avg ELSE FoldAverage(MathRound(avg + Head(rest), 2), Tail(rest))

OverallScoreRunning(scores) ==
  IF Len(scores) > 0 THEN FoldAverage(Head(scores), Tail(scores)) ELSE 0

\* a default other than 0 for a candidate without scores
OverallScoreDefault(scores) ==
  IF Len(scores) > 0 THEN MathRound(SumSeq(scores), Len(scores)) ELSE ConsiderThreshold

OverallScore(scores) ==
  IF Len(scores) > 0 THEN MathRound(SumSeq(scores), Len(scores)) ELSE 0

\* strict comparisons in place of >=
RecommendationStrict(overallScore) ==
  IF overallScore > StrongHireThreshold THEN "STRONG_HIRE"
  ELSE IF overallScore > HireThreshold THEN "HIRE"
  ELSE IF overallScore > ConsiderThreshold THEN "CONSIDER"
  ELSE "NO_HIRE"

Recommendation(overallScore) ==
  IF overallScore >= StrongHireThreshold THEN "STRONG_HIRE"
  ELSE IF overallScore >= HireThreshold THEN "HIRE"
  ELSE IF overallScore >= ConsiderThreshold THEN "CONSIDER"
  ELSE "NO_HIRE"

\* agentResults.find(r => r.agentType === agentType)?.result
FindResult(agentResults, agentType) ==
  IF \E j \in 1..Len(agentResults) : agentResults[j].agentType = agentType
  THEN agentResults[CHOOSE j \in 1..Len(agentResults) :
                      /\ agentResults[j].agentType = agentType
                      /\ \A h \in 1..(j - 1) : agentResults[h].agentType # agentType].result
  ELSE NoResult

\* the ConcurrentProcessingResult compiled for candidate `index` (0-based)
CompileResult(tasks, promises, index) ==
  LET agentResults == AgentResults(tasks, promises, CandidateId(index))
      overallScore == OverallScore(ScoresOf(agentResults))
  IN [candidateId |-> CandidateId(index),
      candidateIndex |-> index,
      overallScore |-> overallScore,
      recommendation |-> Recommendation(overallScore),
      agentResults |-> [talentscout |-> FindResult(agentResults, "TalentScout"),
                        skillsanalyst |-> FindResult(agentResults, "SkillsAnalyst"),
                        culturefit |-> FindResult(agentResults, "CultureFit")],
      contributing |-> Len(agentResults),
      agentConsensus |-> TRUE]

\* a compilation that iterates over the candidates that have a result only
CompileScoredOnly(tasks, promises, n) ==
  SelectSeq([j \in 1..n |-> CompileResult(tasks, promises, j - 1)],
            LAMBDA r : r.contributing > 0)

\* candidates.forEach((candidate, index) => finalResults.push(result))
CompileFinalResults(tasks, promises, n) ==
  [j \in 1..n |-> CompileResult(tasks, promises, j - 1)]

\* ------------------------------------------------- BulkResumeProcessor
\* what the screening service answers once a call succeeds: the score and the
\* recommendation are both chosen by the service
ScreeningResults ==
  {[match_score |-> 80, recommendation |-> "HIRE"],
   [match_score |-> 80, recommendation |-> "CONSIDER"],
   [match_score |-> 90, recommendation |-> "STRONG_HIRE"]}

NoScreening == [match_score |-> Undefined, recommendation |-> "none"]

\* the null that processSingleResume returns for a resume that failed
Null == [candidateIndex |-> Undefined, screeningResult |-> NoScreening]

\* the BulkResumeResult that processSingleResume returns on success
BulkResumeResult(index, screeningResult) ==
  [candidateIndex |-> index, screeningResult |-> screeningResult]

BulkUnstarted == [state |-> "unstarted", value |-> Null]
BulkPending == [state |-> "pending", value |-> Null]

Min(a, b) == IF a <= b THEN a ELSE b

\* 1000 * Math.pow(2, retryCount): the backoff delay screenResume waits before
\* it calls itself with retryCount + 1
BackoffDelay(count) == BaseDelayMs * (2 ^ count)

\* a delay after every window, the last one included
PacingAlways(first, c, n) == TRUE

\* if (i + concurrency < resumes.length): another window follows, so the loop
\* waits the pacing delay
PacingNeeded(first, c, n) == first + c < n

\* a slice that ignores the window size
WindowUnbounded(first, c, n) == first..(n - 1)

\* resumes.slice(i, i + concurrency): the indices of the window that starts at i
Window(first, c, n) == first..(Min(first + c, n) - 1)

\* a counting loop whose else branch does not count
CountSuccessOnly(cnt, ok) ==
  [processed |-> cnt.processed + 1,
   successful |-> cnt.successful + (IF ok THEN 1 ELSE 0),
   failed |-> cnt.failed]

\* processed++, then successful++ or failed++
CountResult(cnt, ok) ==
  [processed |-> cnt.processed + 1,
   successful |-> cnt.successful + (IF ok THEN 1 ELSE 0),
   failed |-> cnt.failed + (IF ok THEN 0 ELSE 1)]

\* useState({ processed: 0, total: 0, current: '' })
InitialProgress == [processed |-> 0, total |-> 0]

\* the onProgress callback of handleBulkProcessing:
\* setBulkProgress({ processed, total: total || bulkProgress.total, ... }),
\* bulkProgress being the state captured when the handler was created
OnProgress(processed, total) ==
  [processed |-> processed,
   total |-> IF total # 0 THEN total ELSE InitialProgress.total]

\* Array.prototype.sort with (a, b) => b.match_score - a.match_score: a stable
\* sort, realised here as insertion behind every element that is not smaller
\* an insertion that puts an element before its equals: not stable
RECURSIVE InsertBeforeEquals(_, _)
InsertBeforeEquals(sorted, x) ==
  IF sorted = <<>> THEN <<x>>
  ELSE IF Head(sorted).screeningResult.match_score > x.screeningResult.match_score
       THEN <<Head(sorted)>> \o InsertBeforeEquals(Tail(sorted), x)
       ELSE <<x>> \o sorted

RECURSIVE InsertByScore(_, _)
InsertByScore(sorted, x) ==
  IF sorted = <<>> THEN <<x>>
  ELSE IF Head(sorted).screeningResult.match_score >= x.screeningResult.match_score
       THEN <<Head(sorted)>> \o InsertByScore(Tail(sorted), x)
       ELSE <<x>> \o sorted

RECURSIVE SortInto(_, _)
SortInto(sorted, rest) ==
  IF rest = <<>> THEN sorted
  ELSE SortInto(InsertByScore(sorted, Head(rest)), Tail(rest))

SortByMatchScore(rs) == SortInto(<<>>, rs)

FilterRecommendation(rs, recommendation) ==
  SelectSeq(rs, LAMBDA r : r.screeningResult.recommendation = recommendation)

\* Math.floor in the place of Math.ceil
TopCountFloor(len) == Min(10, len \div 10)

\* Math.min(10, Math.ceil(results.length * 0.1))
TopCount(len) == Min(10, (len + 9) \div 10)

\* the BulkProcessingSummary built after the loop, from the sorted results
Summarize(rs, total, cnt) ==
  LET sorted == SortByMatchScore(rs)
  IN [totalResumes |-> total,
      processedResumes |-> cnt.processed,
      successfulScreenings |-> cnt.successful,
      failedScreenings |-> cnt.failed,
      results |-> sorted,
      topCandidates |-> SubSeq(sorted, 1, Min(TopCount(Len(sorted)), Len(sorted))),
      recommendations |->
        [strongHire |-> FilterRecommendation(sorted, "STRONG_HIRE"),
         hire |-> FilterRecommendation(sorted, "HIRE"),
         consider |-> FilterRecommendation(sorted, "CONSIDER"),
         noHire |-> FilterRecommendation(sorted, "NO_HIRE")]]

NoSummary == [returned |-> FALSE]

\* ------------------------------------------------------------ segmenters
\* A text is a sequence of tokens.  A token is a piece of the text that the
\* patterns of the segmenters treat as a whole: a delimiter line, a line that
\* holds only a name, a run of blank lines, or a run of ordinary text.
\*   len      number of characters of the token
\*   capture  number of characters of the pattern's capture group, which
\*            String.prototype.split puts into its output
\*   matches  the patterns that match the token
\*   keyword  whether the lower-cased token contains one of 'experience',
\*            'education', 'skills', 'work', 'resume'
\*   space    whether the token is white space only (removed by trim())
\* "RESUME 1 - Jane Doe"
ResumeHeader ==
  [kind |-> "ResumeHeader", len |-> 19, capture |-> 8, matches |-> {"resume_header"},
   keyword |-> TRUE, space |-> FALSE]

\* "---RESUME---": a delimiter string of parseResumesFromText, and a match of
\* the third pattern of parseMultipleResumesFromText with capture "RESUME"
DashResume ==
  [kind |-> "DashResume", len |-> 12, capture |-> 6,
   matches |-> {"dash_rule", "---RESUME---"}, keyword |-> TRUE, space |-> FALSE]

\* "Resume 1:"
ResumeColon ==
  [kind |-> "ResumeColon", len |-> 9, capture |-> 0, matches |-> {"Resume \\d+:"},
   keyword |-> TRUE, space |-> FALSE]

\* "Jane Doe" on a line of its own
NameLine ==
  [kind |-> "NameLine", len |-> 8, capture |-> 8, matches |-> {"name_line"},
   keyword |-> FALSE, space |-> FALSE]

\* four newlines
Gap ==
  [kind |-> "Gap", len |-> 4, capture |-> 0, matches |-> {"long_gap", "blank_lines"},
   keyword |-> FALSE, space |-> TRUE]

\* ordinary text of len characters, without a delimiter
Text(len, keyword) ==
  [kind |-> "Text", len |-> len, capture |-> 0, matches |-> {}, keyword |-> keyword,
   space |-> FALSE]

\* the tokens the texts are built from: sections below and above each length
\* threshold, with and without a keyword
Alphabet ==
  {ResumeHeader, DashResume, ResumeColon, NameLine, Gap,
   Text(60, FALSE), Text(150, FALSE), Text(250, TRUE)}

Texts == UNION {[1..n -> Alphabet] : n \in 0..MaxTokens}

\* the delimiters of parseMultipleResumesFromText, in the order they are tried
MultiDelimiters == <<"resume_header", "candidate_header", "dash_rule", "star_rule">>

\* the delimiters of parseResumesFromText, in the order they are tried
BulkDelimiters ==
  <<"---RESUME---", "===RESUME===", "***RESUME***", "\\n\\n---\\n\\n", "\\n\\n===\\n\\n",
    "Resume \\d+:", "Candidate \\d+:">>

\* Array.from(text.matchAll(pattern)).length
CountMatches(text, pattern) ==
  Cardinality({n \in DOMAIN text : pattern \in text[n].matches})

\* the capture group of a match, as split() returns it
Capture(token) == Text(token.capture, FALSE)

\* text.split(pattern): the sections between the matches; with a pattern that
\* has a capture group, the captured text of every match is an element too
RECURSIVE SplitFrom(_, _, _, _)
SplitFrom(text, pattern, captures, current) ==
  IF text = <<>> THEN <<current>>
  ELSE IF pattern \in Head(text).matches
       THEN <<current>> \o (IF captures THEN <<(<<Capture(Head(text))>>)>> ELSE <<>>)
            \o SplitFrom(Tail(text), pattern, captures, <<>>)
       ELSE SplitFrom(Tail(text), pattern, captures, Append(current, Head(text)))

Split(text, pattern, captures) == SplitFrom(text, pattern, captures, <<>>)

RECURSIVE TrimStart(_)
TrimStart(text) ==
  IF text # <<>> /\ Head(text).space THEN TrimStart(Tail(text)) ELSE text

RECURSIVE TrimEnd(_)
TrimEnd(text) ==
  IF text # <<>> /\ text[Len(text)].space THEN TrimEnd(SubSeq(text, 1, Len(text) - 1))
  ELSE text

\* text.trim()
Trim(text) == TrimEnd(TrimStart(text))

\* text.length
RECURSIVE Length(_)
Length(text) == IF text = <<>> THEN 0 ELSE Head(text).len + Length(Tail(text))

\* a filter with the lower threshold of the final filter
SectionsOverFifty(sections) ==
  SelectSeq(sections, LAMBDA section : Length(Trim(section)) > MinResumeLength)

\* .filter(section => section.trim().length > 100)
LongSections(sections) ==
  SelectSeq(sections, LAMBDA section : Length(Trim(section)) > MinSectionLength)

\* the first delimiter pattern with more than one match, 0 when there is none
FirstDelimiter(text) ==
  IF \E d \in DOMAIN MultiDelimiters : CountMatches(text, MultiDelimiters[d]) > 1
  THEN CHOOSE d \in DOMAIN MultiDelimiters :
         /\ CountMatches(text, MultiDelimiters[d]) > 1
         /\ \A e \in 1..(d - 1) : CountMatches(text, MultiDelimiters[e]) <= 1
  ELSE 0

\* a chain that goes on to the next strategy whenever one leaves fewer than
\* two sections
ResumeSectionsByYield(text) ==
  LET d == FirstDelimiter(text)
      byDelimiter == IF d # 0 THEN LongSections(Split(text, MultiDelimiters[d], TRUE))
                     ELSE <<>>
      byName == IF CountMatches(text, "name_line") > 1
                THEN LongSections(Split(text, "name_line", TRUE)) ELSE <<>>
  IN IF Len(byDelimiter) > 1 THEN byDelimiter
     ELSE IF Len(byName) > 1 THEN byName
     ELSE LongSections(Split(text, "long_gap", FALSE))

\* resumeSections of parseMultipleResumesFromText
ResumeSections(text) ==
  LET d == FirstDelimiter(text)
  IN IF d # 0 THEN LongSections(Split(text, MultiDelimiters[d], TRUE))
     ELSE IF CountMatches(text, "name_line") > 1
          THEN LongSections(Split(text, "name_line", TRUE))
          ELSE LongSections(Split(text, "long_gap", FALSE))

\* a segmenter without the single-resume fallback
ParseWithoutFallback(text) ==
  LET resumeSections == ResumeSections(text)
  IN SelectSeq([n \in DOMAIN resumeSections |-> Trim(resumeSections[n])],
               LAMBDA resume : Length(resume) > MinResumeLength)

\* parseMultipleResumesFromText: the resume bodies of the work units returned
ParseMultipleResumesFromText(text) ==
  LET resumeSections == ResumeSections(text)
  IN IF Len(resumeSections) <= 1 THEN <<Trim(text)>>
     ELSE SelectSeq([n \in DOMAIN resumeSections |-> Trim(resumeSections[n])],
                    LAMBDA resume : Length(resume) > MinResumeLength)

\* the first delimiter of parseResumesFromText that occurs in the content, 0
\* when there is none
FirstBulkDelimiter(content) ==
  IF \E d \in DOMAIN BulkDelimiters : Len(Split(content, BulkDelimiters[d], FALSE)) > 1
  THEN CHOOSE d \in DOMAIN BulkDelimiters :
         /\ Len(Split(content, BulkDelimiters[d], FALSE)) > 1
         /\ \A e \in 1..(d - 1) : Len(Split(content, BulkDelimiters[e], FALSE)) <= 1
  ELSE 0

\* lowerSection.includes('experience') || ... || lowerSection.includes('resume')
HasKeyword(section) == \E n \in DOMAIN section : section[n].keyword

\* parseResumesFromText: the resumes returned
ParseResumesFromText(content) ==
  LET d == FirstBulkDelimiter(content)
      split == IF d # 0 THEN LongSections(Split(content, BulkDelimiters[d], FALSE))
               ELSE <<>>
      found == IF Len(split) = 0
               THEN SelectSeq(Split(content, "blank_lines", FALSE),
                              LAMBDA section :
                                /\ Length(Trim(section)) > MinFallbackLength
                                /\ HasKeyword(section))
               ELSE split
  IN SelectSeq([n \in DOMAIN found |-> Trim(found[n])],
               LAMBDA resume : Length(resume) > MinSectionLength)

\* ------------------------------------------------------------------ Init
\* the state of the run-independent part, before any text is segmented
NoSegmentation ==
  /\ parsed = {}
  /\ workUnits = <<>>
  /\ resumeList = <<>>

Init ==
  /\ resumesText = <<>>
  /\ NoSegmentation
  /\ run \in {"multi", "bulk"}
  /\ candidates \in (IF run = "multi" THEN 0..MaxCandidates ELSE {0})
  /\ resumes \in (IF run = "bulk" THEN 0..MaxResumes ELSE {0})
  /\ concurrency \in (IF run = "bulk" THEN 1..MaxConcurrency ELSE {MaxConcurrency})
  /\ eventListeners \in (IF run = "multi"
                         THEN SUBSET {"task_started", "task_completed"} ELSE {{}})
  /\ pc = "idle"
  /\ allTasks = <<>>
  /\ taskPromises = <<>>
  /\ emitting = 0
  /\ agents = InitialAgents
  /\ finalResults = <<>>
  /\ emitted = NothingEmitted
  /\ eventLog = EmptyLog
  /\ progress = InitialProcessingProgress
  /\ calls = NoCalls(0)
  /\ pacingDelays = 0
  /\ i = 0
  /\ batchPromises = [j \in 0..(resumes - 1) |-> BulkUnstarted]
  /\ retryCount = [j \in 0..(resumes - 1) |-> 0]
  /\ attempts = [j \in 0..(resumes - 1) |-> 0]
  /\ waits = [j \in 0..(resumes - 1) |-> <<>>]
  /\ waiting = [j \in 0..(resumes - 1) |-> FALSE]
  /\ dispatched = [j \in 0..(resumes - 1) |-> 0]
  /\ cursor = 0
  /\ counters = [processed |-> 0, successful |-> 0, failed |-> 0]
  /\ results = <<>>
  /\ bulkProgress = InitialProgress
  /\ summary = NoSummary

\* ------------------------------------- processCandidatesConcurrently
\* emit('batch_started'), then the creation of the 3 tasks of every candidate
ProcessCandidatesConcurrently ==
  /\ run = "multi" /\ pc = "idle"
  /\ allTasks' = CreateTasks(0, candidates)
  /\ taskPromises' = [k \in 1..(Len(AgentTypes) * candidates) |-> Unstarted]
  /\ pc' = IF candidates = 0 THEN "awaiting" ELSE "dispatching"
  /\ emitted' = Emit(emitted, "batch_started")
  /\ eventLog' = LogBatchStarted(eventLog, candidates, Len(AgentTypes) * candidates)
  /\ progress' = OnBatchStarted(progress, candidates)
  /\ calls' = NoCalls(Len(AgentTypes) * candidates)
  /\ UNCHANGED <<params, bulkVars, emitting, agents, finalResults>>

\* allTasks.map(task => this.executeTask(task)): the synchronous part of
\* executeTask for the next task, up to the await of its evaluator.  The
\* task_started listeners run outside the try block: when one throws, the
\* promise of executeTask is rejected and the evaluator is never called.
ExecuteTaskStart ==
  /\ run = "multi" /\ pc = "dispatching"
  /\ \E k \in DOMAIN allTasks :
       /\ taskPromises[k].state = "unstarted"
       /\ \A j \in 1..(k - 1) : taskPromises[j].state # "unstarted"
       /\ allTasks' = [allTasks EXCEPT ![k].status = "processing"]
       /\ agents' = AgentBusy(agents, ToLowerCase(allTasks[k].agentType),
                              allTasks[k].candidateId)
       /\ taskPromises' = [taskPromises EXCEPT
                             ![k] = IF EmitThrows(eventListeners, "task_started")
                                    THEN Rejected ELSE Pending]
       /\ pc' = IF k = Len(allTasks) THEN "awaiting" ELSE "dispatching"
       /\ eventLog' = LogTask(eventLog, k, "task_started")
       /\ calls' = [calls EXCEPT
                      ![k].executeTask = @ + 1,
                      ![k].evaluator = IF EmitThrows(eventListeners, "task_started")
                                       THEN @ ELSE @ + 1]
  /\ emitted' = Emit(emitted, "task_started")
  /\ UNCHANGED <<params, bulkVars, emitting, finalResults, progress>>

\* the evaluator of task k returns: executeTask resumes, marks the task
\* completed, updates the agent and calls the task_completed listeners
EvaluatorReturns ==
  /\ run = "multi" /\ pc = "awaiting" /\ emitting = 0
  /\ \E k \in DOMAIN allTasks :
       /\ taskPromises[k].state = "pending"
       /\ \E score \in EvaluatorScores(allTasks[k].agentType) :
            allTasks' = [allTasks EXCEPT
                           ![k] = TaskCompleted(@, EvaluatorResult(@.agentType, score))]
       /\ agents' = AgentCompleted(agents, ToLowerCase(allTasks[k].agentType))
       /\ emitting' = k
       /\ eventLog' = LogTask(eventLog, k, "task_completed")
  /\ emitted' = Emit(emitted, "task_completed")
  /\ progress' = OnTaskCompleted(progress)
  /\ UNCHANGED <<params, bulkVars, pc, taskPromises, finalResults, calls>>

\* the task_completed listeners return: executeTask returns the result
ListenersReturn ==
  /\ emitting # 0
  /\ ~EmitThrows(eventListeners, "task_completed")
  /\ taskPromises' = [taskPromises EXCEPT
                        ![emitting] = Fulfilled(allTasks[emitting].result)]
  /\ emitting' = 0
  /\ UNCHANGED <<params, bulkVars, pc, allTasks, agents, finalResults, emitted, eventLog,
                 progress, calls>>

\* a task_completed listener throws: emit is inside the try block, so the
\* catch block runs for a task that is already completed
ListenerThrows ==
  /\ emitting # 0
  /\ EmitThrows(eventListeners, "task_completed")
  /\ allTasks' = [allTasks EXCEPT ![emitting] = TaskFailed(@)]
  /\ agents' = AgentFailed(agents, ToLowerCase(allTasks[emitting].agentType))
  /\ taskPromises' = [taskPromises EXCEPT ![emitting] = Rejected]
  /\ emitting' = 0
  /\ emitted' = Emit(emitted, "task_failed")
  /\ eventLog' = LogTask(eventLog, emitting, "task_failed")
  /\ UNCHANGED <<params, bulkVars, pc, finalResults, progress, calls>>

\* the evaluator of task k throws: the catch block of executeTask.  Whether
\* a task_failed listener throws or not, the promise is rejected.
EvaluatorThrows ==
  /\ run = "multi" /\ pc = "awaiting" /\ emitting = 0
  /\ \E k \in DOMAIN allTasks :
       /\ taskPromises[k].state = "pending"
       /\ allTasks' = [allTasks EXCEPT ![k] = TaskFailed(@)]
       /\ agents' = AgentFailed(agents, ToLowerCase(allTasks[k].agentType))
       /\ taskPromises' = [taskPromises EXCEPT ![k] = Rejected]
       /\ eventLog' = LogTask(eventLog, k, "task_failed")
  /\ emitted' = Emit(emitted, "task_failed")
  /\ UNCHANGED <<params, bulkVars, pc, emitting, finalResults, progress, calls>>

\* await Promise.allSettled(taskPromises) resumes: results are grouped per
\* candidate, compiled in input order, batch_completed is emitted, and the
\* list is returned.  Were the await to reject, the run would reject.
AwaitResumed ==
  /\ run = "multi" /\ pc = "awaiting" /\ emitting = 0
  /\ PromiseAllSettled(taskPromises) # "pending"

CompileAndReturn ==
  /\ AwaitResumed
  /\ IF PromiseAllSettled(taskPromises) = "fulfilled"
     THEN /\ finalResults' = CompileFinalResults(allTasks, taskPromises, candidates)
          /\ emitted' = Emit(emitted, "batch_completed")
          /\ eventLog' = LogBatchCompleted(eventLog, finalResults')
          /\ pc' = "returned"
     ELSE /\ finalResults' = finalResults
          /\ emitted' = emitted
          /\ eventLog' = eventLog
          /\ pc' = "rejected"
  /\ UNCHANGED <<params, bulkVars, allTasks, taskPromises, emitting, agents, progress,
                 calls>>

\* ------------------------------------------------- processAllResumes
\* handleBulkProcessing: parseResumesFromText returned no resume, so the
\* handler throws 'No resumes found in the file' and never calls
\* processAllResumes
HandleBulkProcessingThrows ==
  /\ run = "bulk" /\ pc = "idle"
  /\ resumes = 0
  /\ pc' = "error"
  /\ UNCHANGED <<params, multiVars, bulkVars>>

\* handleBulkProcessing announces the total, then processAllResumes starts:
\* empty results, zeroed counters, i = 0.  A caller other than the handler
\* can pass an empty list.
ProcessAllResumes ==
  /\ run = "bulk" /\ pc = "idle"
  /\ bulkProgress' = [processed |-> 0, total |-> resumes]
  /\ i' = 0
  /\ cursor' = 0
  /\ counters' = [processed |-> 0, successful |-> 0, failed |-> 0]
  /\ results' = <<>>
  /\ pc' = IF 0 < resumes THEN "window_dispatch" ELSE "summarize"
  /\ UNCHANGED <<params, multiVars, batchPromises, retryVars, dispatched, summary, pacingDelays>>

\* batch.map(... => this.processSingleResume(resume, i + batchIndex)): the
\* synchronous part of processSingleResume for the next resume of the window,
\* up to the await of screenResume (called with retryCount = 0)
ProcessSingleResumeStart ==
  /\ run = "bulk" /\ pc = "window_dispatch"
  /\ \E j \in Window(i, concurrency, resumes) :
       /\ batchPromises[j].state = "unstarted"
       /\ \A h \in Window(i, concurrency, resumes) :
            h < j => batchPromises[h].state # "unstarted"
       /\ batchPromises' = [batchPromises EXCEPT ![j] = BulkPending]
       /\ retryCount' = [retryCount EXCEPT ![j] = 0]
       /\ attempts' = [attempts EXCEPT ![j] = 1]
       /\ waits' = [waits EXCEPT ![j] = <<>>]
       /\ dispatched' = [dispatched EXCEPT ![j] = @ + 1]
       /\ pc' = IF \A h \in Window(i, concurrency, resumes) : h <= j
                THEN "window_await" ELSE "window_dispatch"
  /\ UNCHANGED <<params, multiVars, i, waiting, cursor, counters, results, bulkProgress,
                 summary, pacingDelays>>

\* screenResume: the service call of resume j fails (or its answer is not
\* valid) and retryCount < 3, so the client starts the backoff delay of
\* 1000 * 2^retryCount ms
ScreenResumeRetries ==
  /\ run = "bulk" /\ pc = "window_await"
  /\ \E j \in DOMAIN batchPromises :
       /\ batchPromises[j].state = "pending" /\ ~waiting[j]
       /\ retryCount[j] < MaxRetries
       /\ waits' = [waits EXCEPT ![j] = Append(@, BackoffDelay(retryCount[j]))]
       /\ waiting' = [waiting EXCEPT ![j] = TRUE]
  /\ UNCHANGED <<params, multiVars, pc, i, batchPromises, retryCount, attempts, dispatched,
                 cursor, counters, results, bulkProgress, summary, pacingDelays>>

\* the backoff delay of resume j elapses: screenResume calls itself with
\* retryCount + 1, which invokes the service again
BackoffElapses ==
  /\ run = "bulk" /\ pc = "window_await"
  /\ \E j \in DOMAIN batchPromises :
       /\ batchPromises[j].state = "pending" /\ waiting[j]
       /\ retryCount' = [retryCount EXCEPT ![j] = @ + 1]
       /\ attempts' = [attempts EXCEPT ![j] = @ + 1]
       /\ waiting' = [waiting EXCEPT ![j] = FALSE]
  /\ UNCHANGED <<params, multiVars, pc, i, batchPromises, waits, dispatched, cursor,
                 counters, results, bulkProgress, summary, pacingDelays>>

\* screenResume: the service call of resume j fails with retryCount = 3, so
\* screenResume throws; processSingleResume catches, reports progress and
\* returns null
ScreenResumeGivesUp ==
  /\ run = "bulk" /\ pc = "window_await"
  /\ \E j \in DOMAIN batchPromises :
       /\ batchPromises[j].state = "pending" /\ ~waiting[j]
       /\ ~(retryCount[j] < MaxRetries)
       /\ bulkProgress' = OnProgress(j + 1, -1)
       /\ batchPromises' = [batchPromises EXCEPT
                              ![j] = [state |-> "fulfilled", value |-> Null]]
  /\ UNCHANGED <<params, multiVars, pc, i, retryVars, dispatched, cursor, counters,
                 results, summary, pacingDelays>>

\* screenResume: the service call of resume j returns a valid result;
\* processSingleResume reports progress and returns the result record
ScreenResumeSucceeds ==
  /\ run = "bulk" /\ pc = "window_await"
  /\ \E j \in DOMAIN batchPromises :
       /\ batchPromises[j].state = "pending" /\ ~waiting[j]
       /\ bulkProgress' = OnProgress(j + 1, -1)
       /\ \E screeningResult \in ScreeningResults :
            batchPromises' = [batchPromises EXCEPT
                                ![j] = [state |-> "fulfilled",
                                        value |-> BulkResumeResult(j, screeningResult)]]
  /\ UNCHANGED <<params, multiVars, pc, i, retryVars, dispatched, cursor, counters,
                 results, summary, pacingDelays>>

\* await Promise.allSettled(batchPromises) has resumed: one iteration of
\* for (const result of batchResults), ending with onProgress(processed, total).
\* After the last result of the window the loop either paces or ends.
CountBatchResult ==
  /\ run = "bulk" /\ pc = "window_await"
  /\ PromiseAllSettled([j \in Window(i, concurrency, resumes) |-> batchPromises[j]])
       # "pending"
  /\ LET j == i + cursor
         p == batchPromises[j]
         ok == p.state = "fulfilled" /\ p.value # Null
         last == \A h \in Window(i, concurrency, resumes) : h <= j
     IN /\ counters' = CountResult(counters, ok)
        /\ results' = IF ok THEN Append(results, p.value) ELSE results
        /\ bulkProgress' = OnProgress(counters.processed + 1, resumes)
        /\ cursor' = IF last THEN 0 ELSE cursor + 1
        /\ pc' = IF ~last THEN "window_await"
                 ELSE IF PacingNeeded(i, concurrency, resumes) THEN "delay"
                 ELSE "summarize"
  /\ UNCHANGED <<params, multiVars, i, batchPromises, retryVars, dispatched, summary, pacingDelays>>

\* the 1000 ms pacing delay elapses; i += concurrency, and the loop goes on
\* while i < resumes.length
PacingDelayElapses ==
  /\ run = "bulk" /\ pc = "delay"
  /\ pacingDelays' = pacingDelays + 1
  /\ i' = i + concurrency
  /\ pc' = IF i + concurrency < resumes THEN "window_dispatch" ELSE "summarize"
  /\ UNCHANGED <<params, multiVars, batchPromises, retryVars, dispatched, cursor,
                 counters, results, summary, bulkProgress>>

\* the loop of processAllResumes has ended (i >= resumes.length)
LoopEnded == run = "bulk" /\ pc = "summarize"

\* after the loop: sort, categorise, slice the top candidates, return
ReturnSummary ==
  /\ LoopEnded
  /\ results' = SortByMatchScore(results)
  /\ summary' = Summarize(results, resumes, counters)
  /\ pc' = "returned"
  /\ UNCHANGED <<params, multiVars, i, batchPromises, retryVars, dispatched, cursor,
                 counters, bulkProgress, pacingDelays>>

Next ==
  \/ ProcessCandidatesConcurrently
  \/ ExecuteTaskStart
  \/ EvaluatorReturns
  \/ ListenersReturn
  \/ ListenerThrows
  \/ EvaluatorThrows
  \/ CompileAndReturn
  \/ HandleBulkProcessingThrows
  \/ ProcessAllResumes
  \/ ProcessSingleResumeStart
  \/ ScreenResumeRetries
  \/ BackoffElapses
  \/ ScreenResumeGivesUp
  \/ ScreenResumeSucceeds
  \/ CountBatchResult
  \/ PacingDelayElapses
  \/ ReturnSummary

Spec == Init /\ [][Next]_vars

\* ------------------------------------- the aggregation of one candidate
\* evaluator scores over the whole 0..100 range: the ends and both sides of
\* every recommendation threshold
ScoreSamples == {0, 1, 49, 50, 84, 85, 99, 100}

\* how executeTask can have settled for a task of the kind: rejected, or
\* fulfilled with the evaluator's result
Outcomes(agentType) ==
  {Rejected} \cup {Fulfilled(EvaluatorResult(agentType, score)) : score \in ScoreSamples}

\* processCandidatesConcurrently for one candidate, at the moment the await of
\* Promise.allSettled resumes: every task settled, nothing compiled yet
AggInit ==
  \E o1 \in Outcomes(AgentTypes[1]), o2 \in Outcomes(AgentTypes[2]),
     o3 \in Outcomes(AgentTypes[3]) :
    /\ resumesText = <<>>
    /\ NoSegmentation
    /\ run = "multi"
    /\ candidates = 1 /\ resumes = 0 /\ concurrency = MaxConcurrency
    /\ eventListeners = {}
    /\ pc = "awaiting"
    /\ taskPromises = <<o1, o2, o3>>
    /\ allTasks = [k \in 1..Len(AgentTypes) |->
                     IF taskPromises[k].state = "fulfilled"
                     THEN TaskCompleted([TasksOf(0)[k] EXCEPT !.status = "processing"],
                                        taskPromises[k].value)
                     ELSE TaskFailed([TasksOf(0)[k] EXCEPT !.status = "processing"])]
    /\ emitting = 0
    /\ agents = [id \in AgentIds |->
                   IF \E k \in 1..Len(AgentTypes) : ToLowerCase(AgentTypes[k]) = id
                   THEN LET k == CHOOSE h \in 1..Len(AgentTypes) :
                                   ToLowerCase(AgentTypes[h]) = id
                        IN IF taskPromises[k].state = "fulfilled"
                           THEN AgentCompleted(InitialAgents, id)[id]
                           ELSE AgentFailed(InitialAgents, id)[id]
                   ELSE InitialAgents[id]]
    /\ finalResults = <<>>
    /\ emitted = [NothingEmitted EXCEPT
                    !["batch_started"] = 1,
                    !["task_started"] = Len(AgentTypes),
                    !["task_completed"] =
                      Cardinality({k \in 1..Len(AgentTypes) :
                                     taskPromises[k].state = "fulfilled"}),
                    !["task_failed"] =
                      Cardinality({k \in 1..Len(AgentTypes) :
                                     taskPromises[k].state = "rejected"})]
    /\ eventLog = [count |-> <<1>>,
                   tasks |-> [k \in 1..Len(AgentTypes) |->
                                <<"task_started",
                                  IF taskPromises[k].state = "fulfilled"
                                  THEN "task_completed" ELSE "task_failed">>],
                   results |-> <<>>]
    /\ progress = [totalCandidates |-> 1,
                   processedCandidates |-> emitted["task_completed"]]
    /\ calls = [k \in 1..Len(AgentTypes) |-> [executeTask |-> 1, evaluator |-> 1]]
    /\ pacingDelays = 0
    /\ i = 0
    /\ batchPromises = <<>> /\ retryCount = <<>> /\ attempts = <<>>
    /\ waits = <<>> /\ waiting = <<>> /\ dispatched = <<>>
    /\ cursor = 0
    /\ counters = [processed |-> 0, successful |-> 0, failed |-> 0]
    /\ results = <<>>
    /\ bulkProgress = InitialProgress
    /\ summary = NoSummary

AggSpec == AggInit /\ [][CompileAndReturn]_vars

\* ------------------------------------- the summary of a large bulk run
\* the answer of the screening service for resume j of a large run: scores
\* between 40 and 90 in steps of 5, in no particular order, with ties
SampleScreening(j) ==
  LET score == 40 + 5 * ((7 * j) % 11)
  IN [match_score |-> score, recommendation |-> Recommendation(score)]

\* processAllResumes at the end of its loop, for a run of nFailed resumes that
\* failed followed by nSuccessful resumes that were screened
SummaryInit ==
  \E nSuccessful \in 0..MaxSuccessful, nFailed \in 0..MaxFailed :
    /\ resumesText = <<>>
    /\ NoSegmentation
    /\ run = "bulk"
    /\ candidates = 0
    /\ resumes = nFailed + nSuccessful
    /\ concurrency = MaxConcurrency
    /\ eventListeners = {}
    /\ pc = "summarize"
    /\ allTasks = <<>> /\ taskPromises = <<>> /\ emitting = 0
    /\ agents = InitialAgents /\ finalResults = <<>> /\ emitted = NothingEmitted
    /\ eventLog = EmptyLog /\ progress = InitialProcessingProgress /\ calls = NoCalls(0)
    /\ i = IF resumes = 0 THEN 0 ELSE ((resumes - 1) \div concurrency) * concurrency
    /\ pacingDelays = i \div concurrency
    /\ batchPromises =
         [j \in 0..(resumes - 1) |->
            [state |-> "fulfilled",
             value |-> IF j < nFailed THEN Null
                       ELSE BulkResumeResult(j, SampleScreening(j))]]
    /\ retryCount = [j \in 0..(resumes - 1) |-> IF j < nFailed THEN MaxRetries ELSE 0]
    /\ attempts = [j \in 0..(resumes - 1) |-> retryCount[j] + 1]
    /\ waits = [j \in 0..(resumes - 1) |->
                  [n \in 1..retryCount[j] |-> BackoffDelay(n - 1)]]
    /\ waiting = [j \in 0..(resumes - 1) |-> FALSE]
    /\ dispatched = [j \in 0..(resumes - 1) |-> 1]
    /\ cursor = 0
    /\ counters = [processed |-> resumes, successful |-> nSuccessful, failed |-> nFailed]
    /\ results = [n \in 1..nSuccessful |-> batchPromises[nFailed + n - 1].value]
    /\ bulkProgress = IF resumes = 0 THEN [processed |-> 0, total |-> 0]
                      ELSE OnProgress(resumes, resumes)
    /\ summary = NoSummary

SummarySpec == SummaryInit /\ [][ReturnSummary]_vars

\* ------------------------------------------------- the segmenters alone
SegInit ==
  /\ resumesText \in Texts
  /\ NoSegmentation
  /\ run = "segment"
  /\ candidates = 0 /\ resumes = 0 /\ concurrency = MaxConcurrency /\ eventListeners = {}
  /\ pc = "idle"
  /\ allTasks = <<>> /\ taskPromises = <<>> /\ emitting = 0
  /\ agents = InitialAgents /\ finalResults = <<>> /\ emitted = NothingEmitted
  /\ eventLog = EmptyLog /\ progress = InitialProcessingProgress /\ calls = NoCalls(0)
  /\ pacingDelays = 0
  /\ i = 0
  /\ batchPromises = <<>> /\ retryCount = <<>> /\ attempts = <<>>
  /\ waits = <<>> /\ waiting = <<>> /\ dispatched = <<>>
  /\ cursor = 0
  /\ counters = [processed |-> 0, successful |-> 0, failed |-> 0]
  /\ results = <<>>
  /\ bulkProgress = InitialProgress
  /\ summary = NoSummary

\* orchestrator.parseMultipleResumesFromText(resumesText)
ApplyParseMultipleResumesFromText ==
  /\ run = "segment" /\ "multi" \notin parsed
  /\ workUnits' = ParseMultipleResumesFromText(resumesText)
  /\ parsed' = parsed \cup {"multi"}
  /\ UNCHANGED <<run, candidates, resumes, concurrency, eventListeners, resumesText,
                 resumeList, pc, multiVars, bulkVars>>

\* processor.parseResumesFromText(content)
ApplyParseResumesFromText ==
  /\ run = "segment" /\ "bulk" \notin parsed
  /\ resumeList' = ParseResumesFromText(resumesText)
  /\ parsed' = parsed \cup {"bulk"}
  /\ UNCHANGED <<run, candidates, resumes, concurrency, eventListeners, resumesText,
                 workUnits, pc, multiVars, bulkVars>>

SegNext ==
  \/ ApplyParseMultipleResumesFromText
  \/ ApplyParseResumesFromText

SegSpec == SegInit /\ [][SegNext]_vars

\* the event loop runs every callback that is ready, timers elapse, and every
\* evaluator or screening-service call eventually returns or fails: the run
\* does not stop while it has a step to take
FairSpec == Spec /\ WF_vars(Next)

\* ======================================================= properties
ProcessingTasks == {k \in DOMAIN allTasks : allTasks[k].status = "processing"}
InFlightResumes == {j \in DOMAIN batchPromises : batchPromises[j].state = "pending"}

MultiReturned == run = "multi" /\ pc = "returned"
BulkReturned == run = "bulk" /\ pc = "returned"

\* the score field an evaluator of the task's kind fills in
OwnScore(task) ==
  CASE task.agentType = "TalentScout" -> task.result.match_score
    [] task.agentType = "SkillsAnalyst" -> task.result.technical_score
    [] task.agentType = "CultureFit" -> task.result.culture_score

TasksWithStatus(candidateId, status) ==
  {k \in DOMAIN allTasks :
     allTasks[k].candidateId = candidateId /\ allTasks[k].status = status}

RECURSIVE SumOwnScores(_)
SumOwnScores(ks) ==
  IF ks = {} THEN 0
  ELSE LET k == CHOOSE x \in ks : TRUE
       IN OwnScore(allTasks[k]) + SumOwnScores(ks \ {k})

Rank(recommendation) ==
  CASE recommendation = "STRONG_HIRE" -> 4
    [] recommendation = "HIRE" -> 3
    [] recommendation = "CONSIDER" -> 2
    [] recommendation = "NO_HIRE" -> 1

\* ------------------------------------------------------------------- C1
\* C1 as stated: in every state of a run, bulk or multi-evaluator, the number
\* of tasks in processing is at most the configured ceiling.
C1_CeilingBothRuns ==
  /\ run = "bulk" => Cardinality(InFlightResumes) <= concurrency
  /\ run = "multi" => Cardinality(ProcessingTasks) <= concurrency

\* C1 as amended: in the windowed bulk run the number of resumes in processing
\* (dispatched to screenResume, not settled) never exceeds the ceiling; the
\* multi-evaluator run has no ceiling: it puts every one of its 3N tasks into
\* processing before any of them settles, and 3N is its only limit.
C1_CeilingBulkOnly ==
  /\ run = "bulk" => Cardinality(InFlightResumes) <= concurrency
  /\ run = "multi" =>
       /\ Cardinality(ProcessingTasks) <= Len(AgentTypes) * candidates
       /\ pc = "dispatching" =>
            \A k \in DOMAIN allTasks :
              taskPromises[k].state # "unstarted" => allTasks[k].status = "processing"

\* a bulk run with more resumes than the ceiling has a full window in flight
C1_Witness ==
  /\ run = "bulk" /\ concurrency > 1 /\ resumes > concurrency
  /\ Cardinality(InFlightResumes) = concurrency

\* ------------------------------------------------------------------- C2
\* C2: processCandidatesConcurrently returns exactly N results, exactly one
\* per input candidate and carrying its candidateId, whatever tasks failed.
C2_OneResultPerCandidate ==
  MultiReturned =>
    /\ Len(finalResults) = candidates
    /\ \A index \in 0..(candidates - 1) :
         Cardinality({j \in DOMAIN finalResults :
                        finalResults[j].candidateId = CandidateId(index)}) = 1

\* a returned run of two or more candidates, one with all tasks failed and
\* one with a completed task
C2_Witness ==
  /\ MultiReturned /\ candidates >= 2
  /\ \E c \in 0..(candidates - 1) :
       Cardinality(TasksWithStatus(CandidateId(c), "failed")) = Len(AgentTypes)
  /\ \E c \in 0..(candidates - 1) : TasksWithStatus(CandidateId(c), "completed") # {}

\* ------------------------------------------------------------------- C3
\* C3: in processAllResumes a resume of a later window is dispatched only
\* after every resume of every earlier window has settled; the windows are
\* the index slices [k*C, min((k+1)*C, N)); every resume is dispatched exactly
\* once.
C3_WindowBarrier ==
  run = "bulk" =>
    /\ i % concurrency = 0
    /\ \A j \in DOMAIN batchPromises :
         /\ batchPromises[j].state # "unstarted" =>
              /\ j < Min(i + concurrency, resumes)
              /\ \A h \in DOMAIN batchPromises :
                   (h \div concurrency) < (j \div concurrency) => Settled(batchPromises[h])
         /\ batchPromises[j].state = "pending" => i <= j
         /\ dispatched[j] = (IF batchPromises[j].state = "unstarted" THEN 0 ELSE 1)
         /\ pc = "returned" => dispatched[j] = 1

\* a resume of the second window is in flight
C3_Witness ==
  /\ run = "bulk"
  /\ \E j \in DOMAIN batchPromises : j >= concurrency /\ batchPromises[j].state = "pending"
  /\ \E h \in DOMAIN batchPromises : batchPromises[h].value = Null /\ Settled(batchPromises[h])

\* ------------------------------------------------------------------- C4
\* C4: a failed task never aborts the run: the run never rejects; whenever no
\* call is outstanding and the run has not returned, the controller has a
\* further step to take (the next dispatch, window, count or the return); and
\* when it has returned every task was dispatched and settled and the result
\* is well-formed (one result per candidate; a summary that counts every
\* resume).
C4_FailureNeverAborts ==
  /\ pc # "rejected"
  /\ ( /\ pc \notin {"returned", "error"}
       /\ InFlightResumes = {}
       /\ emitting = 0
       /\ \A k \in DOMAIN taskPromises : taskPromises[k].state # "pending" )
     => \/ AwaitResumed
        \/ LoopEnded
        \/ ENABLED (\/ ProcessCandidatesConcurrently \/ ExecuteTaskStart
                    \/ ProcessAllResumes \/ ProcessSingleResumeStart
                    \/ CountBatchResult \/ PacingDelayElapses)
  /\ MultiReturned =>
       /\ \A k \in DOMAIN taskPromises : Settled(taskPromises[k])
       /\ Len(allTasks) = Len(AgentTypes) * candidates
       /\ Len(finalResults) = candidates
  /\ BulkReturned =>
       /\ \A j \in DOMAIN batchPromises : Settled(batchPromises[j]) /\ dispatched[j] = 1
       /\ summary.processedResumes = resumes
       /\ summary.successfulScreenings + summary.failedScreenings = resumes

\* a returned multi-evaluator run in which tasks failed and tasks completed
C4_Witness ==
  /\ MultiReturned
  /\ \E k \in DOMAIN allTasks : allTasks[k].status = "failed"
  /\ \E k \in DOMAIN allTasks : allTasks[k].status = "completed"

\* ------------------------------------------------------------------- C5
\* C5: for a candidate with n > 0 completed tasks, overallScore is the mean of
\* the completed tasks' scores rounded to the nearest integer (halves up);
\* failed tasks count neither in the sum nor in n.  With one task failed and
\* two completed with 90 and 80, overallScore = 85 and STRONG_HIRE.
C5_RoundedMeanOfCompleted ==
  MultiReturned =>
    \A j \in DOMAIN finalResults :
      LET r == finalResults[j]
          done == TasksWithStatus(r.candidateId, "completed")
          n == Cardinality(done)
          total == SumOwnScores(done)
      IN /\ n > 0 =>
              /\ 2 * n * r.overallScore - n <= 2 * total
              /\ 2 * total < 2 * n * r.overallScore + n
         /\ ( /\ n = 2
              /\ {OwnScore(allTasks[k]) : k \in done} = {80, 90}
              /\ TasksWithStatus(r.candidateId, "failed") # {} )
            => r.overallScore = 85 /\ r.recommendation = "STRONG_HIRE"

\* the scenario: one evaluator failed, two completed with 90 and 80
C5_Witness ==
  /\ MultiReturned
  /\ \E j \in DOMAIN finalResults :
       LET done == TasksWithStatus(finalResults[j].candidateId, "completed")
       IN /\ Cardinality(done) = 2
          /\ {OwnScore(allTasks[k]) : k \in done} = {80, 90}
          /\ Cardinality(TasksWithStatus(finalResults[j].candidateId, "failed")) = 1
          /\ finalResults[j].overallScore = 85

\* ------------------------------------------------------------------- C6
\* C6: a candidate without any completed task is in the returned list, with
\* overallScore 0 and recommendation NO_HIRE.
C6_NoCompletedTask ==
  MultiReturned =>
    \A index \in 0..(candidates - 1) :
      TasksWithStatus(CandidateId(index), "completed") = {} =>
        \E j \in DOMAIN finalResults :
          /\ finalResults[j].candidateId = CandidateId(index)
          /\ finalResults[j].overallScore = 0
          /\ finalResults[j].recommendation = "NO_HIRE"

\* a returned run with a candidate whose three tasks failed
C6_Witness ==
  /\ MultiReturned
  /\ \E index \in 0..(candidates - 1) :
       Cardinality(TasksWithStatus(CandidateId(index), "failed")) = Len(AgentTypes)

\* ------------------------------------------------------------------- C7
\* the bands as the claim lists them
C7_Band(score) ==
  IF score \in 85..100 THEN "STRONG_HIRE"
  ELSE IF score \in 70..84 THEN "HIRE"
  ELSE IF score \in 50..69 THEN "CONSIDER"
  ELSE "NO_HIRE"

\* C7: the recommendation is the fixed threshold function of overallScore:
\* 85..100 STRONG_HIRE, 70..84 HIRE, 50..69 CONSIDER, 0..49 NO_HIRE, for
\* every integer score and for every aggregated result.
C7_Thresholds ==
  /\ pc = "idle" => \A score \in 0..100 : Recommendation(score) = C7_Band(score)
  /\ MultiReturned =>
       \A j \in DOMAIN finalResults :
         /\ finalResults[j].overallScore \in 0..100
         /\ finalResults[j].recommendation = C7_Band(finalResults[j].overallScore)

\* a returned run with a result exactly on the STRONG_HIRE threshold and a
\* result in the CONSIDER band
C7_Witness ==
  /\ MultiReturned
  /\ \E j \in DOMAIN finalResults :
       finalResults[j].overallScore = 85 /\ finalResults[j].recommendation = "STRONG_HIRE"
  /\ \E j \in DOMAIN finalResults :
       finalResults[j].overallScore \in 50..69 /\ finalResults[j].recommendation = "CONSIDER"

\* ------------------------------------------------------------------- C8
\* a precedes b in the claimed order: higher score first, then higher
\* recommendation rank, then earlier input position
C8_Precedes(scoreA, recA, indexA, scoreB, recB, indexB) ==
  \/ scoreA > scoreB
  \/ scoreA = scoreB /\ Rank(recA) > Rank(recB)
  \/ scoreA = scoreB /\ Rank(recA) = Rank(recB) /\ indexA < indexB

\* C8 as stated: the returned list is ordered by score descending, ties by
\* recommendation rank, then by input order.
C8_RankedOutput ==
  /\ MultiReturned =>
       \A a, b \in DOMAIN finalResults :
         a < b => C8_Precedes(finalResults[a].overallScore, finalResults[a].recommendation,
                              finalResults[a].candidateIndex,
                              finalResults[b].overallScore, finalResults[b].recommendation,
                              finalResults[b].candidateIndex)
  /\ BulkReturned =>
       \A a, b \in DOMAIN summary.results :
         a < b => C8_Precedes(summary.results[a].screeningResult.match_score,
                              summary.results[a].screeningResult.recommendation,
                              summary.results[a].candidateIndex,
                              summary.results[b].screeningResult.match_score,
                              summary.results[b].screeningResult.recommendation,
                              summary.results[b].candidateIndex)

\* C8 as amended: processCandidatesConcurrently returns its results in input
\* order, unsorted; the results of processAllResumes are ordered by match_score
\* descending and results of equal score keep their input order (the
\* recommendation plays no part in the order).
C8_InputOrderAndScoreOrder ==
  /\ MultiReturned =>
       \A j \in DOMAIN finalResults : finalResults[j].candidateIndex = j - 1
  /\ BulkReturned =>
       /\ results = summary.results
       /\ \A a, b \in DOMAIN summary.results :
            a < b =>
              \/ summary.results[a].screeningResult.match_score
                   > summary.results[b].screeningResult.match_score
              \/ /\ summary.results[a].screeningResult.match_score
                      = summary.results[b].screeningResult.match_score
                 /\ summary.results[a].candidateIndex < summary.results[b].candidateIndex

\* a returned bulk run in which the sort moved a later resume to the front
\* and left two results of equal score in input order against their ranks
C8_Witness ==
  /\ BulkReturned
  /\ \E a, b \in DOMAIN summary.results :
       /\ a < b
       /\ summary.results[a].candidateIndex > summary.results[b].candidateIndex
  /\ \E a, b \in DOMAIN summary.results :
       /\ a < b
       /\ summary.results[a].screeningResult.match_score
            = summary.results[b].screeningResult.match_score
       /\ Rank(summary.results[a].screeningResult.recommendation)
            < Rank(summary.results[b].screeningResult.recommendation)

\* ------------------------------------------------------------------- C9
C9_LegalStep(before, after) ==
  \/ after = before
  \/ before = "pending" /\ after = "processing"
  \/ before = "processing" /\ after \in {"completed", "failed"}

\* C9: a task's status only moves pending -> processing -> completed | failed;
\* it never leaves completed or failed and never skips processing.
C9_StatusOnlyForward ==
  [][\A k \in (DOMAIN allTasks) \cap (DOMAIN allTasks') :
       C9_LegalStep(allTasks[k].status, allTasks'[k].status)]_vars

\* ------------------------------------------------------------------ C10
\* C10: in every state and for every task, result is set exactly when the
\* status is completed and error is set exactly when the status is failed.
C10_ResultIffCompleted ==
  \A k \in DOMAIN allTasks :
    /\ allTasks[k].resultSet <=> allTasks[k].status = "completed"
    /\ allTasks[k].errorSet <=> allTasks[k].status = "failed"

C12_EveryRunTerminates ==
  <>( /\ pc \in {"returned", "error"}
      /\ \A k \in DOMAIN allTasks : allTasks[k].status \in {"completed", "failed"}
      /\ \A j \in DOMAIN batchPromises :
           Settled(batchPromises[j]) /\ attempts[j] <= MaxRetries + 1 )

\* ------------------------------------------------------------------ C13
\* C13: a batch of N candidates creates exactly 3N tasks, one per candidate and
\* evaluator kind (the 3N tasks carry the N x 3 different pairs of candidateId
\* and evaluator kind, and 3N different task ids); distinct candidates have
\* distinct candidateIds, and a candidate's id is the same in its tasks, in
\* every state from their creation on, and in its aggregated result.
C13_OneTaskPerEvaluatorKind ==
  (run = "multi" /\ pc # "idle") =>
    LET ids == {allTasks[k].id : k \in DOMAIN allTasks}
        pairs == {<<allTasks[k].candidateId, allTasks[k].agentType>> : k \in DOMAIN allTasks}
        candidateIds == {CandidateId(c) : c \in 0..(candidates - 1)}
    IN /\ Len(allTasks) = 3 * candidates
       /\ Cardinality(ids) = Len(allTasks)
       /\ Cardinality(candidateIds) = candidates
       /\ pairs = candidateIds \X {"TalentScout", "SkillsAnalyst", "CultureFit"}
       /\ pc = "returned" =>
            \A c \in 0..(candidates - 1) :
              /\ finalResults[c + 1].candidateId = CandidateId(c)
              /\ \A k \in (3 * c + 1)..(3 * c + 3) :
                   allTasks[k].candidateId = finalResults[c + 1].candidateId

\* a returned run of two candidates: six tasks, two results
C13_Witness ==
  /\ MultiReturned /\ candidates = 2
  /\ Len(allTasks) = 6 /\ Len(finalResults) = 2
  /\ finalResults[1].candidateId # finalResults[2].candidateId
  /\ \A k \in DOMAIN allTasks : allTasks[k].status = "completed"

\* ------------------------------------------------------------------ C14
\* no strategy (a delimiter pattern, the name-line split, the long-gap split)
\* yields more than one section longer than 100 characters
C14_NoStrategySplits(text) ==
  /\ \A d \in DOMAIN MultiDelimiters :
       Len(LongSections(Split(text, MultiDelimiters[d], TRUE))) <= 1
  /\ Len(LongSections(Split(text, "name_line", TRUE))) <= 1
  /\ Len(LongSections(Split(text, "long_gap", FALSE))) <= 1

\* C14: parseMultipleResumesFromText never returns an empty sequence, for any
\* text (one without a boundary and one of fewer than 100 characters
\* included); when no strategy yields more than one section it returns exactly
\* one work unit, whose body is the whole trimmed text.
C14_NeverEmpty ==
  "multi" \in parsed =>
    /\ Len(workUnits) >= 1
    /\ C14_NoStrategySplits(resumesText) => workUnits = <<Trim(resumesText)>>

\* a text of fewer than 100 characters without a boundary was segmented into
\* one work unit
C14_Witness ==
  /\ "multi" \in parsed
  /\ resumesText # <<>>
  /\ Length(resumesText) < 100
  /\ \A n \in DOMAIN resumesText : resumesText[n].kind = "Text"
  /\ Len(workUnits) = 1

\* ------------------------------------------------------------------ C15
\* C15 as stated: for every non-empty text, every work unit returned by
\* parseMultipleResumesFromText and by parseResumesFromText has a body of more
\* than 100 characters.
C15_EveryUnitLong ==
  resumesText # <<>> =>
    /\ "multi" \in parsed => \A n \in DOMAIN workUnits : Length(workUnits[n]) > 100
    /\ "bulk" \in parsed => \A n \in DOMAIN resumeList : Length(resumeList[n]) > 100

\* C15 as amended: every resume returned by parseResumesFromText has more than
\* 100 characters; so has every work unit of parseMultipleResumesFromText when
\* it returns more than one; when it returns a single work unit, that unit is
\* the whole trimmed text, whatever its length.
C15_LongUnlessSingleUnit ==
  resumesText # <<>> =>
    /\ "bulk" \in parsed => \A n \in DOMAIN resumeList : Length(resumeList[n]) > 100
    /\ "multi" \in parsed =>
         /\ Len(workUnits) > 1 => \A n \in DOMAIN workUnits : Length(workUnits[n]) > 100
         /\ Len(workUnits) = 1 => workUnits[1] = Trim(resumesText)

\* a text that both segmenters split into several units, next to a section
\* that was too short to become one
C15_Witness ==
  /\ parsed = {"multi", "bulk"}
  /\ Len(workUnits) > 1 /\ Len(resumeList) > 1
  /\ \E n \in DOMAIN resumesText :
       resumesText[n].kind = "Text" /\ resumesText[n].len <= 100

\* ------------------------------------------------------------------ C16
\* C16: a run without workable candidates (an empty candidate list, no resume
\* surviving segmentation) ends in a run-level error; no task is dispatched
\* and neither batch_started nor task_started is emitted for it.
C16_NoCandidatesIsRunError ==
  /\ (run = "multi" /\ candidates = 0) =>
       /\ pc \in {"idle", "error"}
       /\ allTasks = <<>>
       /\ emitted["batch_started"] = 0 /\ emitted["task_started"] = 0
  /\ (run = "bulk" /\ resumes = 0) =>
       /\ pc \in {"idle", "error"}
       /\ summary = NoSummary

\* ------------------------------------------------------------------ C17
\* the resumes for which processSingleResume returned null
C17_FailedResumes ==
  {j \in DOMAIN batchPromises :
     Settled(batchPromises[j]) /\ batchPromises[j].value = Null}

C17_Indices(rs) == {rs[n].candidateIndex : n \in DOMAIN rs}

\* C17: at every point of processAllResumes processed = successful + failed;
\* when it returns, processedResumes = totalResumes = the number of resumes,
\* successfulScreenings is the number of result records, no failed resume is
\* in topCandidates or in a recommendation bucket, and the sizes of the four
\* buckets sum to successfulScreenings.
C17_SummaryCounts ==
  run = "bulk" =>
    /\ counters.processed = counters.successful + counters.failed
    /\ pc = "returned" =>
         /\ summary.processedResumes = resumes
         /\ summary.totalResumes = resumes
         /\ summary.successfulScreenings = Len(results)
         /\ summary.successfulScreenings + Cardinality(C17_FailedResumes) = resumes
         /\ Cardinality(C17_Indices(results)) = Len(results)
         /\ C17_FailedResumes
              \cap (C17_Indices(results) \cup C17_Indices(summary.topCandidates)
                    \cup C17_Indices(summary.recommendations.strongHire)
                    \cup C17_Indices(summary.recommendations.hire)
                    \cup C17_Indices(summary.recommendations.consider)
                    \cup C17_Indices(summary.recommendations.noHire)) = {}
         /\ Len(summary.recommendations.strongHire) + Len(summary.recommendations.hire)
              + Len(summary.recommendations.consider) + Len(summary.recommendations.noHire)
              = summary.successfulScreenings

\* a returned bulk run with a failed resume and results in two buckets
C17_Witness ==
  /\ BulkReturned
  /\ summary.failedScreenings >= 1
  /\ Len(summary.recommendations.hire) >= 1
  /\ Len(summary.recommendations.strongHire) >= 1

\* ------------------------------------------------------------------ C18
C18_Score(r) == r.screeningResult.match_score

\* the slice is in score-descending order and no result left out of it has a
\* higher score than a result in it
C18_HighestFirst(top, all) ==
  /\ \A a, b \in DOMAIN top : a < b => C18_Score(top[a]) >= C18_Score(top[b])
  /\ \A a \in DOMAIN top : \E n \in DOMAIN all : all[n] = top[a]
  /\ \A n \in DOMAIN all :
       (\A a \in DOMAIN top : top[a] # all[n]) =>
         \A a \in DOMAIN top : C18_Score(top[a]) >= C18_Score(all[n])

C18_Max(a, b) == IF a >= b THEN a ELSE b

C19_OverallScoreInRange ==
  MultiReturned =>
    \A j \in DOMAIN finalResults :
      LET done == TasksWithStatus(finalResults[j].candidateId, "completed")
      IN /\ finalResults[j].overallScore \in 0..100
         /\ \A k \in done : OwnScore(allTasks[k]) \in 0..100
         /\ done # {} =>
              /\ \E k \in done : OwnScore(allTasks[k]) <= finalResults[j].overallScore
              /\ \E k \in done : OwnScore(allTasks[k]) >= finalResults[j].overallScore

\* an aggregated result at the top of the range, from three scores of 100
C19_Witness ==
  /\ MultiReturned
  /\ \E j \in DOMAIN finalResults :
       /\ finalResults[j].overallScore = 100
       /\ finalResults[j].contributing = 3

\* ------------------------------------------------------------------ C20
\* C20: aggregation depends only on the set of settled tasks of a candidate:
\* the results taken in any order give the same overallScore and the same
\* recommendation, and aggregating the same settled tasks again gives the
\* result that was returned.
C20_OrderIndependent ==
  MultiReturned =>
    \A j \in DOMAIN finalResults :
      LET agentResults == AgentResults(allTasks, taskPromises, finalResults[j].candidateId)
      IN /\ \A p \in Permutations(DOMAIN agentResults) :
              LET reordered == [n \in DOMAIN agentResults |-> agentResults[p[n]]]
                  overallScore == OverallScore(ScoresOf(reordered))
              IN /\ overallScore = finalResults[j].overallScore
                 /\ Recommendation(overallScore) = finalResults[j].recommendation
         /\ CompileResult(allTasks, taskPromises, j - 1) = finalResults[j]

\* an aggregated result of three different scores
C20_Witness ==
  /\ MultiReturned
  /\ \E j \in DOMAIN finalResults :
       /\ finalResults[j].contributing = 3
       /\ finalResults[j].agentResults.talentscout.match_score = 100
       /\ finalResults[j].agentResults.skillsanalyst.technical_score = 50
       /\ finalResults[j].agentResults.culturefit.culture_score = 1

\* ------------------------------------------------------------------ C21
\* the events of one task, in the order the claim allows
C21_TaskLifecycles ==
  {<<"task_started", "task_completed">>, <<"task_started", "task_failed">>}

C21_IsPrefix(s, t) == Len(s) <= Len(t) /\ s = SubSeq(t, 1, Len(s))

\* C21: in one run of processCandidatesConcurrently batch_started is the first
\* event and carries the candidate count; every task is emitted task_started
\* once and afterwards exactly one of task_completed and task_failed;
\* batch_completed is emitted exactly once, after the terminal event of every
\* task, and carries the final result list.
C21_LifecycleEventOrder ==
  run = "multi" =>
    /\ emitted # NothingEmitted =>
         emitted["batch_started"] = 1 /\ eventLog.count = <<candidates>>
    /\ \A k \in DOMAIN eventLog.tasks :
         \E lifecycle \in C21_TaskLifecycles : C21_IsPrefix(eventLog.tasks[k], lifecycle)
    /\ emitted["batch_completed"] <= 1
    /\ pc = "returned" => emitted["batch_completed"] = 1
    /\ emitted["batch_completed"] = 1 =>
         /\ \A k \in DOMAIN eventLog.tasks : eventLog.tasks[k] \in C21_TaskLifecycles
         /\ eventLog.results = <<finalResults>>

\* ------------------------------------------------------------------ C22
\* the recommendation band a single score falls in: 1 (below 50) to 4 (85 and up)
C22_Band(score) ==
  IF score >= StrongHireThreshold THEN 4
  ELSE IF score >= HireThreshold THEN 3
  ELSE IF score >= ConsiderThreshold THEN 2
  ELSE 1

\* C22: the consensus flag of an aggregated result is computed from the
\* contributing scores: true when they all fall within a single recommendation
\* band of each other, false when they do not.  Whatever the exact banding,
\* scores of one and the same band agree, and scores more than one band apart
\* (one below 50 and one of 70 or more, say) do not.
C22_ConsensusIsAgreement ==
  MultiReturned =>
    \A j \in DOMAIN finalResults :
      LET scores == ScoresOf(AgentResults(allTasks, taskPromises,
                                          finalResults[j].candidateId))
          bands == {C22_Band(scores[n]) : n \in DOMAIN scores}
      IN /\ Cardinality(bands) = 1 => finalResults[j].agentConsensus
         /\ (\E a, b \in bands : a - b > 1) => ~finalResults[j].agentConsensus

\* ------------------------------------------------------------------ C23
\* the sections longer than 100 characters that a split by the pattern leaves
C23_Valid(text, pattern, captures) ==
  SelectSeq(Split(text, pattern, captures),
            LAMBDA section : Length(Trim(section)) > MinSectionLength)

\* whether some explicit delimiter pattern matches the text twice or more
C23_DelimiterMatched(text) ==
  \E d \in DOMAIN MultiDelimiters : CountMatches(text, MultiDelimiters[d]) > 1

\* what the explicit-delimiter strategy yields: the valid sections of the
\* first delimiter pattern that matches twice or more
C23_ByDelimiter(text) ==
  IF C23_DelimiterMatched(text)
  THEN LET d == CHOOSE d \in DOMAIN MultiDelimiters :
                  /\ CountMatches(text, MultiDelimiters[d]) > 1
                  /\ \A e \in DOMAIN MultiDelimiters :
                       CountMatches(text, MultiDelimiters[e]) > 1 => d <= e
       IN C23_Valid(text, MultiDelimiters[d], TRUE)
  ELSE <<>>

\* what the standalone-name split yields
C23_ByName(text) ==
  IF CountMatches(text, "name_line") > 1 THEN C23_Valid(text, "name_line", TRUE) ELSE <<>>

\* what the blank-line-gap split yields
C23_ByGap(text) == C23_Valid(text, "long_gap", FALSE)

\* the output that a strategy's sections determine: one work unit per section
\* when there are two or more, the whole text as a single work unit otherwise
C23_Output(text, sections) ==
  IF Len(sections) > 1 THEN [n \in DOMAIN sections |-> Trim(sections[n])]
  ELSE <<Trim(text)>>

\* C23 as stated: whenever the explicit-delimiter strategy yields fewer than
\* two sections longer than 100 characters, the delimiter having matched or
\* not, the segmenter goes on to the standalone-name split and then to the
\* blank-line-gap split; the first strategy that yields more than one valid
\* section determines the output, and a single work unit is the last resort.
C23_ChosenByYield ==
  "multi" \in parsed =>
    workUnits =
      IF Len(C23_ByDelimiter(resumesText)) > 1
      THEN C23_Output(resumesText, C23_ByDelimiter(resumesText))
      ELSE IF Len(C23_ByName(resumesText)) > 1
           THEN C23_Output(resumesText, C23_ByName(resumesText))
           ELSE C23_Output(resumesText, C23_ByGap(resumesText))

\* C23 (amended): the strategy is chosen by which pattern matches, not by what
\* its split yields.  When an explicit delimiter pattern matches twice or
\* more, its sections determine the output and no other strategy is tried,
\* even if they were discarded as too short.  Otherwise the standalone-name
\* split is used when the name pattern matches twice or more, and the
\* blank-line-gap split when it does not.  The one strategy used yields the
\* work units when it leaves more than one section longer than 100
\* characters, and a single work unit otherwise.
C23_ChosenByMatches ==
  "multi" \in parsed =>
    /\ C23_DelimiterMatched(resumesText) =>
         workUnits = C23_Output(resumesText, C23_ByDelimiter(resumesText))
    /\ ~C23_DelimiterMatched(resumesText) /\ CountMatches(resumesText, "name_line") > 1 =>
         workUnits = C23_Output(resumesText, C23_ByName(resumesText))
    /\ ~C23_DelimiterMatched(resumesText) /\ CountMatches(resumesText, "name_line") <= 1 =>
         workUnits = C23_Output(resumesText, C23_ByGap(resumesText))

\* a delimiter matched twice and left fewer than two sections, the gap split
\* would have left two, and the segmenter returned a single work unit
C23_Witness ==
  /\ "multi" \in parsed
  /\ C23_DelimiterMatched(resumesText)
  /\ Len(C23_ByDelimiter(resumesText)) <= 1
  /\ Len(C23_ByGap(resumesText)) > 1
  /\ Len(workUnits) = 1

\* ------------------------------------------------------------------ C24
\* the number of windows a run of n resumes with window size c is cut into
C24_Windows(n, c) == (n + c - 1) \div c

\* C24: between the last settlement of window k and the first dispatch of
\* window k+1 exactly one pacing delay elapses, for every pair of consecutive
\* windows: while window number w (counted from 0) is dispatched, awaited and
\* counted, exactly w delays have elapsed.  A delay is only waited for while a
\* further window follows: none after the final window, none in a run of a
\* single window, so a run of W windows has waited W - 1 delays at its end.
C24_OneDelayBetweenWindows ==
  run = "bulk" =>
    /\ pc \in {"window_dispatch", "window_await"} =>
         /\ i % concurrency = 0 /\ i < resumes
         /\ pacingDelays = i \div concurrency
    /\ pc = "delay" =>
         /\ Window(i, concurrency, resumes) # {}
         /\ \A j \in Window(i, concurrency, resumes) : Settled(batchPromises[j])
         /\ Window(i + concurrency, concurrency, resumes) # {}
         /\ \A j \in Window(i + concurrency, concurrency, resumes) :
              batchPromises[j].state = "unstarted"
         /\ pacingDelays = i \div concurrency
    /\ pc \in {"summarize", "returned"} =>
         pacingDelays = IF resumes = 0 THEN 0
                        ELSE C24_Windows(resumes, concurrency) - 1

\* a returned run of more than one window, the last of them not full
C24_Witness ==
  /\ BulkReturned
  /\ C24_Windows(resumes, concurrency) = 2
  /\ resumes % concurrency # 0
  /\ pacingDelays = 1

\* ------------------------------------------------------------------ C25
\* C25: the controller never retries.  No task is handed to executeTask and no
\* resume to processSingleResume more than once, executeTask never invokes the
\* evaluator of a task more than once and never again after the task failed,
\* and when the run has returned every task has run executeTask once and
\* invoked its evaluator once, and every resume has run processSingleResume
\* (one call of the screening client) once.
C25_ExactlyOneInvocation ==
  /\ \A k \in DOMAIN calls : calls[k].executeTask <= 1 /\ calls[k].evaluator <= 1
  /\ \A j \in DOMAIN dispatched : dispatched[j] <= 1
  /\ MultiReturned =>
       \A k \in DOMAIN allTasks : calls[k].executeTask = 1 /\ calls[k].evaluator = 1
  /\ BulkReturned => \A j \in 0..(resumes - 1) : dispatched[j] = 1

\* ------------------------------------------------------------------ C26
\* the tasks of the evaluator kind that are in the processing state
C26_Processing(agentType) ==
  {k \in DOMAIN allTasks :
     allTasks[k].agentType = agentType /\ allTasks[k].status = "processing"}

\* C26: in every reachable state of a run with several candidates an
\* evaluator is busy, with currentTask set, whenever at least one task of its
\* kind is processing, and idle or error only when none is.
C26_BusyWhileProcessing ==
  run = "multi" =>
    \A a \in DOMAIN AgentTypes :
      LET agent == agents[ToLowerCase(AgentTypes[a])]
      IN /\ C26_Processing(AgentTypes[a]) # {} =>
              agent.status = "busy" /\ agent.currentTask # Undefined
         /\ agent.status \in {"idle", "error"} => C26_Processing(AgentTypes[a]) = {}

\* ------------------------------------------------------------------ C27
\* the tasks of the evaluator kind whose evaluator was invoked and did not
\* return a result: the executeTask promise is rejected and no result was set
C27_EvaluatorFailed(agentType) ==
  {k \in DOMAIN allTasks :
     /\ allTasks[k].agentType = agentType
     /\ calls[k].evaluator = 1
     /\ taskPromises[k].state = "rejected"
     /\ ~allTasks[k].resultSet}

\* C27: a task ends failed only if its evaluator invocation failed.  Once the
\* evaluator has returned a result the task is and stays completed, and an
\* evaluator's errorCount counts only invocations that failed, whatever the
\* listeners do.
C27_FailedOnlyIfEvaluatorFailed ==
  run = "multi" =>
    /\ \A k \in DOMAIN allTasks :
         allTasks[k].resultSet => allTasks[k].status = "completed"
    /\ \A a \in DOMAIN AgentTypes :
         agents[ToLowerCase(AgentTypes[a])].errorCount
           <= Cardinality(C27_EvaluatorFailed(AgentTypes[a]))

\* ------------------------------------------------------------------ C28
\* the tasks of the evaluator kind that have ended with the status
C28_Ended(agentType, status) ==
  {k \in DOMAIN allTasks :
     /\ allTasks[k].agentType = agentType
     /\ Settled(taskPromises[k])
     /\ allTasks[k].status = status}

\* the tasks of the evaluator kind whose executeTask has settled
C28_SettledTasks(agentType) ==
  {k \in DOMAIN allTasks :
     allTasks[k].agentType = agentType /\ Settled(taskPromises[k])}

\* C28: the counters of an evaluator account for every settled task exactly
\* once: once the run has returned, tasksCompleted is the number of the
\* evaluator's tasks that ended completed, errorCount the number that ended
\* failed, and their sum the number of its settled tasks.
C28_CountersMatchTasks ==
  MultiReturned =>
    \A a \in DOMAIN AgentTypes :
      LET agent == agents[ToLowerCase(AgentTypes[a])]
      IN /\ agent.tasksCompleted = Cardinality(C28_Ended(AgentTypes[a], "completed"))
         /\ agent.errorCount = Cardinality(C28_Ended(AgentTypes[a], "failed"))
         /\ agent.tasksCompleted + agent.errorCount
              = Cardinality(C28_SettledTasks(AgentTypes[a]))

\* ------------------------------------------------------------------ C29
\* C29: over the whole sequence of onProgress calls of a bulk run the reported
\* processed count never decreases and never exceeds the number of resumes,
\* and the last call reports processed = total: when the run returns, the
\* progress state shows as many processed as the total.
C29_ProgressMonotonic ==
  [][run = "bulk" =>
       /\ bulkProgress'.processed >= bulkProgress.processed
       /\ bulkProgress'.processed <= resumes
       /\ pc' = "returned" /\ resumes > 0 =>
            bulkProgress'.processed = bulkProgress'.total]_vars

\* ------------------------------------------------------------------ C30
\* C30: in every state of a run the processed-candidates count that the
\* progress reporter derives from the lifecycle events does not exceed the
\* total-candidates count that batch_started announced.
C30_ProcessedWithinTotal ==
  run = "multi" => progress.processedCandidates <= progress.totalCandidates

====
